---- MODULE Spec2Model ----
(***************************************************************************)
(* Model of print_schedule.py: the event extraction and normalization      *)
(* pipeline of get_events_for_date (attendee filtering and bucketing,      *)
(* timezone normalization, duration, ordering) with the helpers it calls,  *)
(* the loading of the name directory from CardDAV, the document built by   *)
(* create_word_document_compact, and the steps of main around them.        *)
(*                                                                         *)
(* Text values are sequences of one-character strings, so that lower(),    *)
(* strip(), startswith() and the lexicographic order of Python's str are   *)
(* computed rather than assumed.  Instants are minutes; an aware datetime  *)
(* is a wall-clock reading together with its UTC offset.                   *)
(***************************************************************************)
EXTENDS Integers, Sequences, FiniteSets, TLC

(***************************************************************************)
(* Python str                                                              *)
(***************************************************************************)

\* Python's None where a str is expected: a one-element sequence that is no
\* text (its element is not a character).
NoneStr == <<"None">>

Chars == {" ", ":", "A", "B", "I", "L", "M", "O", "R", "T",
          "a", "b", "i", "l", "m", "o", "r", "t"}

\* ord(c): the code point, which orders str comparison.
Ord(c) ==
    CASE c = " " -> 32  [] c = ":" -> 58
      [] c = "A" -> 65  [] c = "B" -> 66  [] c = "I" -> 73  [] c = "L" -> 76
      [] c = "M" -> 77  [] c = "O" -> 79  [] c = "R" -> 82  [] c = "T" -> 84
      [] c = "a" -> 97  [] c = "b" -> 98  [] c = "i" -> 105 [] c = "l" -> 108
      [] c = "m" -> 109 [] c = "o" -> 111 [] c = "r" -> 114 [] c = "t" -> 116

\* str.lower() on one character.
LowerChar(c) ==
    IF Ord(c) >= 65 /\ Ord(c) <= 90
    THEN CHOOSE d \in Chars : Ord(d) = Ord(c) + 32
    ELSE c

\* str.lower()
Lower(s) == [k \in 1..Len(s) |-> LowerChar(s[k])]

\* str.strip(): leading and trailing whitespace removed.
RECURSIVE LStrip(_)
LStrip(s) == IF s # <<>> /\ Head(s) = " " THEN LStrip(Tail(s)) ELSE s

RECURSIVE RStrip(_)
RStrip(s) ==
    IF s # <<>> /\ s[Len(s)] = " " THEN RStrip(SubSeq(s, 1, Len(s) - 1)) ELSE s

Strip(s) == RStrip(LStrip(s))

\* str.startswith(p)
StartsWith(s, p) == Len(s) >= Len(p) /\ SubSeq(s, 1, Len(p)) = p

\* The literal 'mailto:' of the source, and s[7:].
mailto == <<"m", "a", "i", "l", "t", "o", ":">>

Drop7(s) == SubSeq(s, Len(mailto) + 1, Len(s))

\* a < b for Python str: lexicographic by code point, a proper prefix first.
RECURSIVE StrLess(_, _)
StrLess(a, b) ==
    IF b = <<>> THEN FALSE
    ELSE IF a = <<>> THEN TRUE
    ELSE IF Ord(Head(a)) # Ord(Head(b)) THEN Ord(Head(a)) < Ord(Head(b))
    ELSE StrLess(Tail(a), Tail(b))

(***************************************************************************)
(* datetime.date, datetime.datetime, datetime.timedelta                    *)
(***************************************************************************)

\* None where a date, datetime or timedelta is expected.
NoValue == [kind |-> "none"]

\* date: a calendar day, counted from the target day.
Date(d) == [kind |-> "date", day |-> d]

\* A datetime with tzinfo None: wall-clock minutes since the target day's 00:00.
NaiveDT(w) == [kind |-> "datetime", wall |-> w, aware |-> FALSE, off |-> 0]

\* A datetime with tzinfo: wall-clock minutes and the UTC offset in minutes.
AwareDT(w, o) == [kind |-> "datetime", wall |-> w, aware |-> TRUE, off |-> o]

Timedelta(m) == [kind |-> "timedelta", minutes |-> m]

\* bool(v) of the source's `if v:` on such a value (dates and datetimes are
\* always true, None is false).
Truthy(v) == v.kind # "none"

\* isinstance(v, datetime)
IsDatetime(v) == v.kind = "datetime"

\* The instant an aware datetime denotes, in minutes UTC.
Instant(v) == v.wall - v.off

MinutesPerDay == 24 * 60

\* datetime.max.replace(tzinfo=tz): the greatest datetime (9999-12-31
\* 23:59:59.999999), here a wall clock later than any reading of an event.
DatetimeMax(tz) == AwareDT(2^30, tz)

\* v.replace(tzinfo=tz): same wall clock, zone attached.
ReplaceTzinfo(v, tz) == AwareDT(v.wall, tz)

\* v.astimezone(tz): same instant, wall clock of zone tz.
Astimezone(v, tz) == AwareDT(v.wall - v.off + tz, tz)

\* datetime.combine(d, datetime.min.time()).replace(tzinfo=tz)
MidnightOf(d, tz) == AwareDT(d.day * MinutesPerDay, tz)

\* end - start of two aware datetimes.
Minus(e, s) == Timedelta(Instant(e) - Instant(s))

(***************************************************************************)
(* parse_timezone_offset, load_meeting_room_emails, resolve_attendee_name  *)
(***************************************************************************)

\* timezone(timedelta(hours=offset_hours)), as the offset in minutes.
parse_timezone_offset(offset_hours) == offset_hours * 60

\* The set of stripped, lowercased, non-empty lines of the file.
load_meeting_room_emails(lines) ==
    {Lower(Strip(lines[k])) : k \in DOMAIN lines} \ {<<>>}

\* The key resolve_attendee_name looks up: lower().strip(), then 'mailto:' removed.
LookupKey(attendee_email) ==
    LET email == Strip(Lower(attendee_email))
    IN  IF StartsWith(email, mailto) THEN Drop7(email) ELSE email

\* Variant of resolve_attendee_name: without an entry it hands back the cleaned
\* address instead of the one given.
resolve_attendee_name_cleaned(attendee_email, email_to_name) ==
    IF LookupKey(attendee_email) \in DOMAIN email_to_name
    THEN email_to_name[LookupKey(attendee_email)]
    ELSE LookupKey(attendee_email)

resolve_attendee_name(attendee_email, email_to_name) ==
    IF LookupKey(attendee_email) \in DOMAIN email_to_name
    THEN email_to_name[LookupKey(attendee_email)]
    ELSE attendee_email

(***************************************************************************)
(* get_events_for_date: one raw event                                      *)
(*                                                                         *)
(* A raw event is a record                                                 *)
(*   has_vevent  whether event.vobject_instance.vevent exists              *)
(*   dtstart, dtend   a Date, a datetime, or NoValue when the property is  *)
(*                    absent                                               *)
(*   summary, location   text, or "None" when the property is absent       *)
(*   organizer   the ORGANIZER value, or NoneStr when absent               *)
(*   shape       "attendee_list", "attendee" (one attendee, no list        *)
(*               attribute) or "none"                                      *)
(*   attendees   the ATTENDEE records [value, role, partstat], role and    *)
(*               partstat being "None" when the parameter is absent        *)
(***************************************************************************)

\* Variant of is_all_day: every start that is no datetime counts, None included.
is_all_day_not_datetime(start_value) == ~IsDatetime(start_value)

\* is_all_day
is_all_day(start_value) == Truthy(start_value) /\ ~IsDatetime(start_value)

\* organizer_email: 'mailto:' removed when the value starts with it, lowercased.
organizer_email(vevent) ==
    IF vevent.organizer = NoneStr THEN NoneStr
    ELSE IF StartsWith(vevent.organizer, mailto) THEN Lower(Drop7(vevent.organizer))
    ELSE Lower(vevent.organizer)

\* attendee_email: the attendee value with a leading 'mailto:' removed.
attendee_email(attendee_str) ==
    IF StartsWith(attendee_str, mailto) THEN Drop7(attendee_str) ELSE attendee_str

\* Variant of NotSkipped: the comparisons without lower().
NotSkippedCaseSensitive(email, room_emails, org_email) ==
    email \notin room_emails /\ email # org_email

\* The condition under which an attendee is taken over into attendee_data.
NotSkipped(email, room_emails, org_email) ==
    Lower(email) \notin room_emails /\ Lower(email) # org_email

\* The raw attendees the code looks at: all of attendee_list, or the one attendee.
RawAttendees(vevent) ==
    CASE vevent.shape = "attendee_list" -> vevent.attendees
      [] vevent.shape = "attendee"      -> SubSeq(vevent.attendees, 1, 1)
      [] OTHER                          -> <<>>

\* attendee_data: the attendees kept, in input order.  pos records which raw
\* attendee an entry stems from (a trace field; the program's dict has no such key).
attendee_data(vevent, room_emails) ==
    LET atts == RawAttendees(vevent)
        kept == SelectSeq([k \in 1..Len(atts) |-> k],
                          LAMBDA k : NotSkipped(attendee_email(atts[k].value),
                                                room_emails, organizer_email(vevent)))
    IN  [j \in 1..Len(kept) |->
            [email    |-> attendee_email(atts[kept[j]].value),
             role     |-> atts[kept[j]].role,
             partstat |-> atts[kept[j]].partstat,
             pos      |-> kept[j]]]

\* Variant of resolved_name: what the resolver returns is taken as the name.
resolved_name_unchecked(email, email_to_name) ==
    IF DOMAIN email_to_name = {} THEN NoneStr
    ELSE resolve_attendee_name(email, email_to_name)

\* resolved_name: the directory's name, None without a directory or when the
\* resolver hands the email back.
resolved_name(email, email_to_name) ==
    IF DOMAIN email_to_name = {} THEN NoneStr
    ELSE IF resolve_attendee_name(email, email_to_name) = email THEN NoneStr
    ELSE resolve_attendee_name(email, email_to_name)

attendee_info(att_data, email_to_name) ==
    [name     |-> resolved_name(att_data.email, email_to_name),
     email    |-> att_data.email,
     partstat |-> att_data.partstat,
     pos      |-> att_data.pos]

\* Variant of IsOptionalRole: whatever is not REQ-PARTICIPANT is optional.
IsOptionalRoleNotRequired(role) == role # "REQ-PARTICIPANT"

\* role == 'OPT-PARTICIPANT'
IsOptionalRole(role) == role = "OPT-PARTICIPANT"

\* Variant of AttendeeKey: the key is lowercased.
AttendeeKeyLowered(x) ==
    Lower(IF x.name # NoneStr /\ x.name # <<>> THEN x.name ELSE x.email)

\* The key of the attendee sort: x['name'] if x['name'] else x['email'].
AttendeeKey(x) == IF x.name # NoneStr /\ x.name # <<>> THEN x.name ELSE x.email

AttendeeLess(x, y) == StrLess(AttendeeKey(x), AttendeeKey(y))

\* list.sort(key=...) on a bucket: stable and ascending, an element going
\* behind every element whose key is not greater than its own.
RECURSIVE InsertAttendee(_, _)
InsertAttendee(sorted, x) ==
    IF sorted = <<>> THEN <<x>>
    ELSE IF AttendeeLess(x, Head(sorted)) THEN <<x>> \o sorted
    ELSE <<Head(sorted)>> \o InsertAttendee(Tail(sorted), x)

RECURSIVE SortAttendees(_)
SortAttendees(s) ==
    IF s = <<>> THEN <<>>
    ELSE InsertAttendee(SortAttendees(SubSeq(s, 1, Len(s) - 1)), s[Len(s)])

required_attendees(vevent, email_to_name, room_emails) ==
    LET data == SelectSeq(attendee_data(vevent, room_emails),
                          LAMBDA d : ~IsOptionalRole(d.role))
    IN  SortAttendees([j \in 1..Len(data) |-> attendee_info(data[j], email_to_name)])

optional_attendees(vevent, email_to_name, room_emails) ==
    LET data == SelectSeq(attendee_data(vevent, room_emails),
                          LAMBDA d : IsOptionalRole(d.role))
    IN  SortAttendees([j \in 1..Len(data) |-> attendee_info(data[j], email_to_name)])

\* Variant of to_local: the zone is attached to every datetime, converted or not.
to_local_replace_only(value, tz) ==
    IF Truthy(value) /\ IsDatetime(value) THEN ReplaceTzinfo(value, tz) ELSE value

\* A start or end value brought to the configured timezone; dates and None
\* are left as they are.
to_local(value, tz) ==
    IF Truthy(value) /\ IsDatetime(value)
    THEN IF ~value.aware THEN ReplaceTzinfo(value, tz) ELSE Astimezone(value, tz)
    ELSE value

\* Variant of duration: start - end.
duration_reversed(start_value, start, end) ==
    IF ~is_all_day(start_value) /\ Truthy(start) /\ Truthy(end)
    THEN Minus(start, end)
    ELSE NoValue

\* event_data['duration']
duration(start_value, start, end) ==
    IF ~is_all_day(start_value) /\ Truthy(start) /\ Truthy(end)
    THEN Minus(end, start)
    ELSE NoValue

\* The body of the try block raises: the record has no vevent, or end - start
\* subtracts a date from a datetime (TypeError).
Raises(event) ==
    \/ ~event.has_vevent
    \/ /\ ~is_all_day(event.dtstart)
       /\ Truthy(event.dtstart)
       /\ Truthy(event.dtend)
       /\ ~IsDatetime(event.dtend)

\* event_data as appended to parsed_events.  src records the position of the
\* raw event in the fetched list (a trace field).  "Bez temy" stands for the
\* source's Cyrillic default summary.
event_data(event, n, tz, email_to_name, room_emails) ==
    [src                |-> n,
     start              |-> to_local(event.dtstart, tz),
     end                |-> to_local(event.dtend, tz),
     is_all_day         |-> is_all_day(event.dtstart),
     summary            |-> IF event.summary = "None" THEN "Bez temy" ELSE event.summary,
     location           |-> IF event.location = "None" THEN "" ELSE event.location,
     required_attendees |-> required_attendees(event, email_to_name, room_emails),
     optional_attendees |-> optional_attendees(event, email_to_name, room_emails),
     attendees          |-> required_attendees(event, email_to_name, room_emails)
                            \o optional_attendees(event, email_to_name, room_emails),
     duration           |-> duration(event.dtstart, to_local(event.dtstart, tz),
                                     to_local(event.dtend, tz))]

\* Variant of sort_key: all-day events get the maximum key.
sort_key_all_day_last(x, tz) ==
    IF Truthy(x.start) /\ IsDatetime(x.start) THEN x.start ELSE DatetimeMax(tz)

\* Variant of sort_key: an event without start gets the minimum key.
sort_key_no_start_first(x, tz) ==
    IF Truthy(x.start)
    THEN IF IsDatetime(x.start) THEN x.start ELSE MidnightOf(x.start, tz)
    ELSE AwareDT(0 - 2^30, tz)

\* sort_key
sort_key(x, tz) ==
    IF Truthy(x.start)
    THEN IF IsDatetime(x.start) THEN x.start ELSE MidnightOf(x.start, tz)
    ELSE DatetimeMax(tz)

\* sort_key(x) < sort_key(y): aware datetimes compare by instant.
SortKeyLess(x, y, tz) == Instant(sort_key(x, tz)) < Instant(sort_key(y, tz))

\* parsed_events.sort(key=sort_key): stable and ascending.
RECURSIVE InsertEvent(_, _, _)
InsertEvent(sorted, x, tz) ==
    IF sorted = <<>> THEN <<x>>
    ELSE IF SortKeyLess(x, Head(sorted), tz) THEN <<x>> \o sorted
    ELSE <<Head(sorted)>> \o InsertEvent(Tail(sorted), x, tz)

RECURSIVE SortParsedEvents(_, _)
SortParsedEvents(s, tz) ==
    IF s = <<>> THEN <<>>
    ELSE InsertEvent(SortParsedEvents(SubSeq(s, 1, Len(s) - 1), tz), s[Len(s)], tz)

(***************************************************************************)
(* Inputs                                                                  *)
(***************************************************************************)

\* Longest fetched list of events, and longest ATTENDEE list of one event.
MaxEvents == 3
MaxAttendees == 2

\* Sequences over S of length at most n.
SeqsUpTo(S, n) == UNION {[1..k -> S] : k \in 0..n}

HM(h, m) == h * 60 + m

\* TIMEZONE_OFFSET values.
TzHours == {0 - 5, 0, 3}

\* Contents of meeting_room_emails.txt: absent or empty, or lines naming one
\* room with stray case, whitespace and an empty line.
RoomFiles == { <<>>, << <<"R", " ">>, <<>>, <<" ", "r">> >> }

\* Name directories: none loaded, names for a and b, or a name for a and for b
\* a name that is its address.
Directories ==
    { <<>>,
      (<<"a">> :> <<"t", "o", "m">>) @@ (<<"b">> :> <<"A", "l">>),
      (<<"a">> :> <<"t", "o", "m">>) @@ (<<"b">> :> <<"b">>) }

MAILTO == <<"M", "A", "I", "L", "T", "O", ":">>

Att(value, role, partstat) == [value |-> value, role |-> role, partstat |-> partstat]

AttRecords ==
    { Att(MAILTO \o <<"a">>, "OPT-PARTICIPANT", "ACCEPTED"),
      Att(mailto \o <<"A">>, "None", "None"),
      Att(MAILTO \o <<"r">>, "REQ-PARTICIPANT", "None"),
      Att(mailto \o <<"R">>, "OPT-PARTICIPANT", "DECLINED"),
      Att(<<"b">>, "REQ-PARTICIPANT", "ACCEPTED"),
      Att(<<"A">>, "REQ-PARTICIPANT", "DECLINED"),
      Att(mailto \o <<"b">>, "OPT-PARTICIPANT", "TENTATIVE") }

Organizers == { NoneStr, mailto \o <<"a">>, <<"A">> }

RawEvent(start, end, summary, organizer, shape, attendees) ==
    [has_vevent |-> TRUE, dtstart |-> start, dtend |-> end,
     summary |-> summary, location |-> "None",
     organizer |-> organizer, shape |-> shape, attendees |-> attendees]

\* Events that differ in their start and end values.
TimedEvents ==
    { RawEvent(NoValue, NoValue, "None", NoneStr, "none", <<>>),
      RawEvent(Date(0), Date(1), "Holiday", NoneStr, "none", <<>>),
      RawEvent(Date(0), NaiveDT(HM(9, 30)), "Holiday", NoneStr, "none", <<>>),
      RawEvent(NaiveDT(HM(9, 0)), NaiveDT(HM(9, 30)), "Sync", NoneStr, "none", <<>>),
      RawEvent(AwareDT(HM(9, 0), 0), AwareDT(HM(9, 30), 0), "Sync", NoneStr, "none", <<>>),
      RawEvent(NaiveDT(HM(10, 30)), NoValue, "Review", NoneStr, "none", <<>>),
      RawEvent(NaiveDT(HM(10, 30)), NaiveDT(HM(9, 0)), "Review", NoneStr, "none", <<>>),
      RawEvent(AwareDT(HM(11, 0), 2 * 60), NaiveDT(HM(11, 30)), "Call", NoneStr, "none", <<>>),
      RawEvent(NaiveDT(HM(9, 0)), Date(1), "Sync", NoneStr, "none", <<>>),
      [RawEvent(NoValue, NoValue, "None", NoneStr, "none", <<>>)
          EXCEPT !.has_vevent = FALSE] }

\* Events that differ in their organizer and attendees.
MeetingEvents ==
    { RawEvent(AwareDT(HM(9, 0), 0), AwareDT(HM(9, 30), 0), "Sync", org,
               IF atts = <<>> THEN "none" ELSE "attendee_list", atts) :
        org \in Organizers, atts \in SeqsUpTo(AttRecords, MaxAttendees) }
    \cup
    { RawEvent(AwareDT(HM(9, 0), 0), AwareDT(HM(9, 30), 0), "Sync", org,
               "attendee", <<a>>) :
        org \in Organizers, a \in AttRecords }

\* What calendar.date_search may return: up to MaxEvents events, or one meeting.
Batches == SeqsUpTo(TimedEvents, MaxEvents) \cup {<<e>> : e \in MeetingEvents}

(***************************************************************************)
(* State                                                                   *)
(***************************************************************************)
VARIABLES
    pc,             \* position in get_events_for_date: "loop", "done"
    tz,             \* config['timezone'], offset in minutes
    room_emails,    \* set of resource addresses
    email_to_name,  \* the name directory
    events,         \* the list calendar.date_search returned
    i,              \* how many events of the list the loop has taken
    parsed_events,  \* the list being built, and returned once pc = "done"
    attendee_arg,   \* resolve_attendee_name called on its own: the address given
    resolved,       \* ... and the value it returned
    step,           \* position in main
    args,           \* the parsed command line: args.date, args.print
    date_arg,       \* main's date_arg, after the prompt
    environ,        \* the settings load_config reads from .env
    calendar,       \* what connect_to_calendar met
    carddav,        \* what the CardDAV server answers
    fetched,        \* calendar.date_search has been called
    document,       \* the rows of the document built
    saved,          \* doc.save has written the document
    printed,        \* what print_document returned, "None" when not called
    result,         \* <<>> while main runs, then <<its return value>>
    error           \* the message main printed after 'Error: ', "None" without

\* The variables of main outside get_events_for_date.
mainvars == <<step, args, date_arg, environ, calendar, carddav,
              fetched, document, saved, printed, result, error>>

\* The variables get_events_for_date does not touch.
others == <<attendee_arg, resolved, mainvars>>

vars == <<pc, tz, room_emails, email_to_name, events, i, parsed_events, others>>

\* No call of resolve_attendee_name on its own is under way.
NoResolveCall == attendee_arg = NoneStr /\ resolved = NoneStr

\* main is not running: get_events_for_date or a helper is called on its own.
NoMain ==
    /\ step = "idle"
    /\ args = NoValue
    /\ date_arg = NoValue
    /\ environ = NoValue
    /\ calendar = "None"
    /\ carddav = NoValue
    /\ fetched = FALSE
    /\ document = <<>>
    /\ saved = FALSE
    /\ printed = "None"
    /\ result = <<>>
    /\ error = "None"

Init ==
    /\ pc = "loop"
    /\ tz \in {parse_timezone_offset(h) : h \in TzHours}
    /\ room_emails \in {load_meeting_room_emails(f) : f \in RoomFiles}
    /\ email_to_name \in Directories
    /\ events \in Batches
    /\ i = 0
    /\ parsed_events = <<>>
    /\ NoResolveCall
    /\ NoMain

\* Variant of LoopBody: the record is appended before the duration is computed,
\* so an event that raises there stays in the list without its end.
LoopBodyAppendsEarly(parsed, event, n, zone, directory, rooms) ==
    IF ~event.has_vevent THEN parsed
    ELSE Append(parsed,
                event_data([event EXCEPT !.dtend = IF Raises(event) THEN NoValue ELSE @],
                           n, zone, directory, rooms))

\* One pass of the loop body: the try block appends event_data as its last
\* statement; the except clause prints a warning and continues.
LoopBody(parsed, event, n, zone, directory, rooms) ==
    IF Raises(event) THEN parsed
    ELSE Append(parsed, event_data(event, n, zone, directory, rooms))

ParseEvent ==
    /\ pc = "loop"
    /\ i < Len(events)
    /\ parsed_events' =
          LoopBody(parsed_events, events[i + 1], i + 1, tz, email_to_name, room_emails)
    /\ i' = i + 1
    /\ UNCHANGED <<pc, tz, room_emails, email_to_name, events, others>>

\* parsed_events.sort(key=sort_key); return parsed_events
SortEvents ==
    /\ pc = "loop"
    /\ i = Len(events)
    /\ parsed_events' = SortParsedEvents(parsed_events, tz)
    /\ pc' = "done"
    /\ UNCHANGED <<tz, room_emails, email_to_name, events, i, others>>

Next == ParseEvent \/ SortEvents

Spec == Init /\ [][Next]_vars

(***************************************************************************)
(* Properties                                                              *)
(***************************************************************************)

\* get_events_for_date has returned parsed_events.
Returned == pc = "done"

\* The raw event an entry of parsed_events was built from.
RawOf(e) == events[e.src]

\* The raw attendees that have an entry in a bucket.
PosOf(bucket) == {bucket[j].pos : j \in DOMAIN bucket}

\* An address as the properties speak of it: lowercased, with the mailto
\* scheme (in whatever case the source wrote it) removed.
NormalizedAddress(s) ==
    IF StartsWith(Lower(s), mailto) THEN Drop7(Lower(s)) ELSE Lower(s)

\* C1: in every returned event, a raw attendee whose normalized address equals
\* the organizer's normalized address has no entry in required_attendees nor
\* in optional_attendees.
OrganizerExcluded ==
    Returned =>
        \A k \in DOMAIN parsed_events :
            LET e    == parsed_events[k]
                atts == RawAttendees(RawOf(e))
            IN  \A p \in DOMAIN atts :
                    ( /\ RawOf(e).organizer # NoneStr
                      /\ NormalizedAddress(atts[p].value)
                            = NormalizedAddress(RawOf(e).organizer) )
                    => p \notin PosOf(e.required_attendees) \cup PosOf(e.optional_attendees)

\* C2: in every returned event, a raw attendee whose normalized address is in
\* room_emails has no entry in required_attendees nor in optional_attendees.
ResourceExcluded ==
    Returned =>
        \A k \in DOMAIN parsed_events :
            LET e    == parsed_events[k]
                atts == RawAttendees(RawOf(e))
            IN  \A p \in DOMAIN atts :
                    NormalizedAddress(atts[p].value) \in room_emails
                    => p \notin PosOf(e.required_attendees) \cup PosOf(e.optional_attendees)

\* C3: every included attendee is in optional_attendees exactly when its ROLE
\* is OPT-PARTICIPANT, and in required_attendees (and not in optional_attendees)
\* with any other role or none.
BucketByRole ==
    Returned =>
        \A k \in DOMAIN parsed_events :
            LET e    == parsed_events[k]
                atts == RawAttendees(RawOf(e))
                req  == PosOf(e.required_attendees)
                opt  == PosOf(e.optional_attendees)
            IN  \A p \in req \cup opt :
                    /\ (atts[p].role = "OPT-PARTICIPANT") <=> (p \in opt)
                    /\ (atts[p].role # "OPT-PARTICIPANT") <=> (p \in req)

\* Reached: an event returned with an OPT-PARTICIPANT in optional_attendees and
\* an attendee without ROLE in required_attendees.
BucketByRoleWitness ==
    /\ Returned
    /\ \E k \in DOMAIN parsed_events :
          LET e    == parsed_events[k]
              atts == RawAttendees(RawOf(e))
          IN  /\ \E x \in PosOf(e.optional_attendees) : atts[x].role = "OPT-PARTICIPANT"
              /\ \E y \in PosOf(e.required_attendees) : atts[y].role = "None"

\* The address of a bucket entry, for comparing entries with one another.
AddressesOf(bucket) == {NormalizedAddress(bucket[j].email) : j \in DOMAIN bucket}

\* A raw attendee that is neither the organizer nor a resource address.
Qualifies(att, raw) ==
    /\ NormalizedAddress(att.value) \notin room_emails
    /\ raw.organizer = NoneStr
         \/ NormalizedAddress(att.value) # NormalizedAddress(raw.organizer)

ComparedKey(value) ==
    Lower(IF StartsWith(value, mailto) THEN Drop7(value) ELSE value)

RawInstant(v) == IF v.aware THEN v.wall - v.off ELSE v.wall - tz

\* C5 as stated: every returned event that is not all-day and has start and end
\* has duration = end - start, and the duration is not negative.
DurationNonNegative ==
    Returned =>
        \A k \in DOMAIN parsed_events :
            LET e == parsed_events[k]
            IN  (~e.is_all_day /\ Truthy(e.start) /\ Truthy(e.end)) =>
                    /\ e.duration = Timedelta(Instant(e.end) - Instant(e.start))
                    /\ e.duration.minutes >= 0

\* C5 (amended): every returned event that is not all-day and has start and end
\* has duration = end - start, the difference of the instants of the raw end
\* and the raw start; it is negative exactly when the end is before the start.
DurationIsDifference ==
    Returned =>
        \A k \in DOMAIN parsed_events :
            LET e   == parsed_events[k]
                raw == RawOf(e)
            IN  (~e.is_all_day /\ Truthy(e.start) /\ Truthy(e.end)) =>
                    /\ e.duration = Timedelta(Instant(e.end) - Instant(e.start))
                    /\ e.duration.minutes
                          = RawInstant(raw.dtend) - RawInstant(raw.dtstart)
                    /\ (e.duration.minutes < 0)
                          <=> (RawInstant(raw.dtend) < RawInstant(raw.dtstart))

\* Reached: a run in a timezone other than UTC that returns a 09:00-09:30 UTC
\* event with a duration of 30 minutes, and an event whose end is before its
\* start with a negative duration.
DurationIsDifferenceWitness ==
    /\ Returned
    /\ tz # 0
    /\ \E k \in DOMAIN parsed_events :
          /\ RawOf(parsed_events[k]).dtstart = AwareDT(HM(9, 0), 0)
          /\ parsed_events[k].duration = Timedelta(30)
    /\ \E k \in DOMAIN parsed_events :
          /\ ~parsed_events[k].is_all_day
          /\ parsed_events[k].duration.kind = "timedelta"
          /\ parsed_events[k].duration.minutes < 0

\* C6: is_all_day is true exactly when the raw start is a date; an all-day
\* event has no duration and its start is the raw date, unchanged.
AllDayIsDate ==
    Returned =>
        \A k \in DOMAIN parsed_events :
            LET e   == parsed_events[k]
                raw == RawOf(e)
            IN  /\ e.is_all_day <=> (raw.dtstart.kind = "date")
                /\ e.is_all_day =>
                      /\ e.duration = NoValue
                      /\ e.start = raw.dtstart
                      /\ e.start.kind = "date"

\* Reached: an all-day event returned whose raw end is a datetime, next to an
\* event without start and a timed event, neither of them all-day.
AllDayIsDateWitness ==
    /\ Returned
    /\ \E k \in DOMAIN parsed_events :
          /\ parsed_events[k].is_all_day
          /\ RawOf(parsed_events[k]).dtend.kind = "datetime"
    /\ \E k \in DOMAIN parsed_events :
          /\ ~parsed_events[k].is_all_day
          /\ RawOf(parsed_events[k]).dtstart = NoValue
    /\ \E k \in DOMAIN parsed_events :
          /\ ~parsed_events[k].is_all_day
          /\ RawOf(parsed_events[k]).dtstart.kind = "datetime"

\* A raw datetime and the value returned for it agree as C7 says.
Localized(rawv, outv) ==
    rawv.kind = "datetime" =>
        /\ outv.kind = "datetime"
        /\ outv.aware
        /\ outv.off = tz
        /\ ~rawv.aware => outv.wall = rawv.wall
        /\ rawv.aware => outv.wall - outv.off = rawv.wall - rawv.off

\* C7: every timed start and end of a returned event carries the configured
\* timezone; a raw value without timezone keeps its wall clock, a raw value
\* with a timezone denotes the same instant.
TimesLocalized ==
    Returned =>
        \A k \in DOMAIN parsed_events :
            /\ Localized(RawOf(parsed_events[k]).dtstart, parsed_events[k].start)
            /\ Localized(RawOf(parsed_events[k]).dtend, parsed_events[k].end)

\* Reached: with offset +3 a raw start of 09:00 UTC is returned as 12:00+03:00,
\* and a raw start of 09:00 without timezone as 09:00+03:00.
TimesLocalizedWitness ==
    /\ Returned
    /\ tz = 3 * 60
    /\ \E k \in DOMAIN parsed_events :
          /\ RawOf(parsed_events[k]).dtstart = AwareDT(HM(9, 0), 0)
          /\ parsed_events[k].start = AwareDT(HM(12, 0), 3 * 60)
    /\ \E k \in DOMAIN parsed_events :
          /\ RawOf(parsed_events[k]).dtstart = NaiveDT(HM(9, 0))
          /\ parsed_events[k].start = AwareDT(HM(9, 0), 3 * 60)

\* The order C8 describes, on returned events x and y: an event without start
\* is not before any event with a start; otherwise the instants decide, an
\* all-day event counting as midnight of its date in the configured timezone.
KeyInstant(x) ==
    IF x.is_all_day THEN x.start.day * MinutesPerDay - tz
    ELSE x.start.wall - x.start.off

KeyNotAfter(x, y) ==
    IF ~Truthy(y.start) THEN TRUE
    ELSE IF ~Truthy(x.start) THEN FALSE
    ELSE KeyInstant(x) <= KeyInstant(y)

\* C8: the returned sequence ascends in the sort key, and events of equal key
\* keep their input order.
SortedByStart ==
    Returned =>
        \A j, k \in DOMAIN parsed_events :
            j < k =>
                /\ KeyNotAfter(parsed_events[j], parsed_events[k])
                /\ KeyNotAfter(parsed_events[k], parsed_events[j])
                      => parsed_events[j].src < parsed_events[k].src

\* Reached: with offset +3, events fetched in the order 10:30, all-day, 09:00
\* are returned all-day first, then 09:00, then 10:30.
SortedByStartWitness ==
    /\ Returned
    /\ tz = 3 * 60
    /\ Len(events) = 3
    /\ events[1].dtstart = NaiveDT(HM(10, 30))
    /\ events[2].dtstart = Date(0)
    /\ events[3].dtstart = NaiveDT(HM(9, 0))
    /\ [k \in DOMAIN parsed_events |-> parsed_events[k].src] = <<2, 3, 1>>

\* The raw events whose normalization raises: no vevent (first statement of the
\* try block), or a datetime start with a date end (the subtraction, its last
\* statement but one).
Fails(raw) ==
    \/ ~raw.has_vevent
    \/ raw.dtstart.kind = "datetime" /\ raw.dtend.kind = "date"

\* How many entries of parsed_events stem from raw event n.
EntriesOf(n) == Cardinality({k \in DOMAIN parsed_events : parsed_events[k].src = n})

\* C9 as stated: a raw event without start value is absent from the returned
\* sequence, and the events after it are returned.
NoStartDropped ==
    Returned =>
        \A n \in DOMAIN events :
            (events[n].has_vevent /\ events[n].dtstart = NoValue) =>
                /\ EntriesOf(n) = 0
                /\ \A m \in DOMAIN events : (m > n /\ ~Fails(events[m])) => EntriesOf(m) = 1

\* C9 (amended): a raw event without start value is returned, once, with start
\* and duration absent and is_all_day false, behind every event that has a
\* start; the events after it are returned as well.
NoStartKeptLast ==
    Returned =>
        \A n \in DOMAIN events :
            (events[n].has_vevent /\ events[n].dtstart = NoValue) =>
                /\ EntriesOf(n) = 1
                /\ \A k \in DOMAIN parsed_events :
                      parsed_events[k].src = n =>
                          /\ parsed_events[k].start = NoValue
                          /\ parsed_events[k].duration = NoValue
                          /\ ~parsed_events[k].is_all_day
                          /\ \A j \in DOMAIN parsed_events :
                                j > k => parsed_events[j].start = NoValue
                /\ \A m \in DOMAIN events : (m > n /\ ~Fails(events[m])) => EntriesOf(m) = 1

\* Reached: an event without start, fetched first and followed by two events
\* with a start, is returned last of three.
NoStartKeptLastWitness ==
    /\ Returned
    /\ Len(events) = 3
    /\ events[1].has_vevent /\ events[1].dtstart = NoValue
    /\ Len(parsed_events) = 3
    /\ parsed_events[3].src = 1
    /\ parsed_events[1].start # NoValue
    /\ parsed_events[2].start # NoValue

\* C10: an event whose normalization raises leaves no entry, every other event
\* taken so far has exactly one entry, and the loop takes every event of the
\* batch before the function returns.
FailureIsolated ==
    /\ \A n \in DOMAIN events :
          EntriesOf(n) = IF n <= i /\ ~Fails(events[n]) THEN 1 ELSE 0
    /\ \A k \in DOMAIN parsed_events : parsed_events[k].src \in 1..i
    /\ Returned => i = Len(events)

\* Reached: of three events the second raises at the subtraction, the first
\* and the third are returned.
FailureIsolatedWitness ==
    /\ Returned
    /\ Len(events) = 3
    /\ ~Fails(events[1])
    /\ events[2].has_vevent /\ Fails(events[2])
    /\ ~Fails(events[3])
    /\ {parsed_events[k].src : k \in DOMAIN parsed_events} = {1, 3}
    /\ Len(parsed_events) = 2

(***************************************************************************)
(* resolve_attendee_name on its own                                        *)
(***************************************************************************)

\* Addresses given to the resolver: a, b, r in either case, with or without
\* the scheme in either case, with or without blanks around them, and one
\* with a blank behind the scheme.
ResolveAddresses ==
    { pre \o scheme \o body \o post :
        pre \in {<<>>, <<" ">>}, scheme \in {<<>>, mailto, MAILTO},
        body \in {<<"a">>, <<"A">>, <<"b">>, <<"r">>}, post \in {<<>>, <<" ">>} }
    \cup { mailto \o <<" ", "a">> }

\* Directories given to the resolver: empty, names for a and b, a name that is
\* the address itself, and keys that begin with a blank or with the scheme.
ResolveDirectories ==
    Directories
    \cup { (<<"a">> :> <<"a">>) @@ (<<"b">> :> <<"A", "l">>),
           (<<" ", "a">> :> <<"t", "o", "m">>) @@ (mailto \o <<"r">> :> <<"A", "l">>) }

InitResolve ==
    /\ pc = "resolve"
    /\ tz = 0
    /\ room_emails = {}
    /\ email_to_name \in ResolveDirectories
    /\ events = <<>>
    /\ i = 0
    /\ parsed_events = <<>>
    /\ attendee_arg \in ResolveAddresses
    /\ resolved = NoneStr
    /\ NoMain

\* resolve_attendee_name(attendee_arg, email_to_name) is called and returns.
ResolveName ==
    /\ pc = "resolve"
    /\ resolved' = resolve_attendee_name(attendee_arg, email_to_name)
    /\ pc' = "resolved"
    /\ UNCHANGED <<tz, room_emails, email_to_name, events, i, parsed_events,
                   attendee_arg, mainvars>>

NextResolve == ResolveName

SpecResolve == InitResolve /\ [][NextResolve]_vars

\* The address as C11 normalizes it: lowercased, trimmed, scheme prefix removed.
CleanedAddress(s) ==
    IF StartsWith(Strip(Lower(s)), mailto) THEN Drop7(Strip(Lower(s))) ELSE Strip(Lower(s))

\* C11: resolve_attendee_name returns the name the directory maps the cleaned
\* address to when there is one, and otherwise the address exactly as given.
ResolverContract ==
    pc = "resolved" =>
        /\ CleanedAddress(attendee_arg) \in DOMAIN email_to_name
              => resolved = email_to_name[CleanedAddress(attendee_arg)]
        /\ CleanedAddress(attendee_arg) \notin DOMAIN email_to_name
              => resolved = attendee_arg

\* Reached: with a directory that names a and b, ' MAILTO:r ' has no entry and
\* is handed back with its blanks, scheme and capitals.
ResolverContractWitness ==
    /\ pc = "resolved"
    /\ attendee_arg = <<" ">> \o MAILTO \o <<"r", " ">>
    /\ <<"a">> \in DOMAIN email_to_name
    /\ resolved = attendee_arg

(***************************************************************************)
(* Attendee records of the returned events                                 *)
(***************************************************************************)

\* The name C12 expects for a stored address: absent without a mapping for the
\* cleaned address or when the mapped name is the stored address itself.
ExpectedName(email) ==
    IF CleanedAddress(email) \notin DOMAIN email_to_name THEN NoneStr
    ELSE IF email_to_name[CleanedAddress(email)] = email THEN NoneStr
    ELSE email_to_name[CleanedAddress(email)]

\* C12: the name of every attendee entry is absent exactly when the directory
\* has no mapping for its cleaned address or the resolved value is its address;
\* otherwise it is the mapped name.
NameIsMappedOrAbsent ==
    Returned =>
        \A k \in DOMAIN parsed_events :
            \A j \in DOMAIN parsed_events[k].attendees :
                LET x == parsed_events[k].attendees[j]
                IN  /\ x.name = ExpectedName(x.email)
                    /\ x.name = NoneStr <=>
                          \/ CleanedAddress(x.email) \notin DOMAIN email_to_name
                          \/ resolve_attendee_name(x.email, email_to_name) = x.email

\* Reached: an event returned with an attendee stored as MAILTO:a and named by
\* the directory's entry for a, and an attendee b whose entry is 'b' and whose
\* name is absent.
NameIsMappedOrAbsentWitness ==
    /\ Returned
    /\ \E k \in DOMAIN parsed_events :
          LET atts == parsed_events[k].attendees
          IN  /\ \E j \in DOMAIN atts :
                    /\ atts[j].email = MAILTO \o <<"a">>
                    /\ atts[j].name = <<"t", "o", "m">>
              /\ \E j \in DOMAIN atts :
                    /\ atts[j].email = <<"b">>
                    /\ email_to_name[<<"b">>] = <<"b">>
                    /\ atts[j].name = NoneStr

\* The two buckets of the returned event k.
BucketsOf(k) == { parsed_events[k].required_attendees,
                  parsed_events[k].optional_attendees }

\* The key C13 names: the name if present, else the address.
NameElseAddress(x) == IF x.name = NoneStr THEN x.email ELSE x.name

\* C13: each bucket is ascending by name-else-address, compared case-sensitively;
\* entries with equal keys keep the order of their raw records; sorting the
\* bucket again gives the same sequence.
BucketsSorted ==
    Returned =>
        \A k \in DOMAIN parsed_events :
            \A b \in BucketsOf(k) :
                /\ \A j1, j2 \in DOMAIN b :
                      j1 < j2 =>
                          /\ ~StrLess(NameElseAddress(b[j2]), NameElseAddress(b[j1]))
                          /\ NameElseAddress(b[j1]) = NameElseAddress(b[j2])
                                => b[j1].pos < b[j2].pos
                /\ SortAttendees(b) = b

\* Reached: a returned event whose required bucket holds MAILTO:r before b,
\* the raw event listing b first: upper case sorts before lower case.
BucketsSortedWitness ==
    /\ Returned
    /\ \E k \in DOMAIN parsed_events :
          LET b == parsed_events[k].required_attendees
          IN  /\ Len(b) = 2
              /\ b[1].email = MAILTO \o <<"r">> /\ b[1].name = NoneStr
              /\ b[2].email = <<"b">> /\ b[2].name = NoneStr
              /\ b[2].pos < b[1].pos

\* C14: the email stored in every attendee entry of a returned event is the
\* raw attendee value lowercased, with the mailto scheme removed, whatever the
\* case of the value or of its scheme.
StoredAddressNormalized ==
    Returned =>
        \A k \in DOMAIN parsed_events :
            \A j \in DOMAIN parsed_events[k].attendees :
                LET x == parsed_events[k].attendees[j]
                IN  x.email = NormalizedAddress(RawAttendees(RawOf(parsed_events[k]))[x.pos].value)

(***************************************************************************)
(* load_contacts_from_carddav                                              *)
(*                                                                         *)
(* A vCard is a record                                                     *)
(*   readable   whether vobject.readOne parses it                          *)
(*   n          the structured name [family, given, additional], <<>> for  *)
(*              an empty component, or NoValue without an N property       *)
(*   fn         the FN value, NoneStr without the property                 *)
(*   emails     the values of email_list                                   *)
(* An address book is [propfind, report, vcards]: the outcome of the two   *)
(* requests ("207", another status, or "raises") and the vCards the REPORT *)
(* response carries.  The server is [propfind, addressbooks].              *)
(***************************************************************************)

\* `not s` for a str that may be None.
Falsy(s) == s = NoneStr \/ s = <<>>

\* ' '.join(parts)
RECURSIVE Join(_)
Join(parts) ==
    IF parts = <<>> THEN <<>>
    ELSE IF Len(parts) = 1 THEN parts[1]
    ELSE parts[1] \o <<" ">> \o Join(Tail(parts))

\* name_parts: family, given, additional, those that are not empty.
name_parts(n) == SelectSeq(<<n.family, n.given, n.additional>>, LAMBDA part : part # <<>>)

\* full_name: from N when family or given is there, else from FN, else none.
full_name(vcard) ==
    LET structured ==
            IF vcard.n # NoValue /\ (vcard.n.family # <<>> \/ vcard.n.given # <<>>)
            THEN Strip(Join(name_parts(vcard.n)))
            ELSE NoneStr
    IN  IF Falsy(structured) /\ ~Falsy(vcard.fn) THEN Strip(vcard.fn) ELSE structured

\* d[k] = v on a dict.
SetItem(d, k, v) == [x \in DOMAIN d \cup {k} |-> IF x = k THEN v ELSE d[x]]

\* The loop over email_list: every non-empty lowercased, stripped address gets
\* the name.
RECURSIVE AddEmails(_, _, _)
AddEmails(directory, emails, name) ==
    IF emails = <<>> THEN directory
    ELSE AddEmails(IF Strip(Lower(Head(emails))) # <<>>
                   THEN SetItem(directory, Strip(Lower(Head(emails))), name)
                   ELSE directory,
                   Tail(emails), name)

\* One pass of the loop over the REPORT responses: a vCard that cannot be
\* parsed or has no name is skipped.
AddVcard(directory, vcard) ==
    IF ~vcard.readable \/ Falsy(full_name(vcard)) THEN directory
    ELSE AddEmails(directory, vcard.emails, full_name(vcard))

RECURSIVE AddVcards(_, _)
AddVcards(directory, vcards) ==
    IF vcards = <<>> THEN directory
    ELSE AddVcards(AddVcard(directory, Head(vcards)), Tail(vcards))

\* load_contacts_from_addressbook: empty when a request fails or raises or
\* the book lists no vCard.
load_contacts_from_addressbook(book) ==
    IF book.propfind # "207" \/ book.vcards = <<>> \/ book.report # "207"
    THEN <<>>
    ELSE AddVcards(<<>>, book.vcards)

\* discover_addressbooks: no book when the request fails or raises.
discover_addressbooks(server) ==
    IF server.propfind = "207" THEN server.addressbooks ELSE <<>>

\* Variant of Update: what the dict holds already is kept.
UpdateKeepsEarlier(directory, book_contacts) ==
    [x \in DOMAIN directory \cup DOMAIN book_contacts |->
        IF x \in DOMAIN directory THEN directory[x] ELSE book_contacts[x]]

\* email_to_name.update(book_contacts)
Update(directory, book_contacts) ==
    [x \in DOMAIN directory \cup DOMAIN book_contacts |->
        IF x \in DOMAIN book_contacts THEN book_contacts[x] ELSE directory[x]]

RECURSIVE LoadBooks(_, _)
LoadBooks(directory, addressbooks) ==
    IF addressbooks = <<>> THEN directory
    ELSE LoadBooks(Update(directory, load_contacts_from_addressbook(Head(addressbooks))),
                   Tail(addressbooks))

load_contacts_from_carddav(server) == LoadBooks(<<>>, discover_addressbooks(server))

(***************************************************************************)
(* Inputs of the contact loading                                           *)
(***************************************************************************)

MaxCards == 2
MaxBooks == 2

Vcard(readable, n, fn, emails) ==
    [readable |-> readable, n |-> n, fn |-> fn, emails |-> emails]

\* N with given name 'Al' and FN 'tom', address a.
VcardAl ==
    Vcard(TRUE, [family |-> <<>>, given |-> <<"A", "l">>, additional |-> <<>>],
          <<"t", "o", "m">>, << <<"a">> >>)

\* FN ' tom' only; addresses 'A ' and b, and one that is blank.
VcardTom ==
    Vcard(TRUE, NoValue, <<" ", "t", "o", "m">>, << <<"A", " ">>, <<" ">>, <<"b">> >>)

\* An empty N and no FN: a contact without name, address a.
VcardNameless ==
    Vcard(TRUE, [family |-> <<>>, given |-> <<>>, additional |-> <<"B">>],
          NoneStr, << <<"a">> >>)

\* Text that vobject cannot parse.
VcardBroken == Vcard(FALSE, NoValue, NoneStr, <<>>)

Vcards == { VcardAl, VcardTom, VcardNameless }

Book(propfind, report, vcards) ==
    [propfind |-> propfind, report |-> report, vcards |-> vcards]

\* Address books: every list of up to MaxCards vCards, a book with a vCard
\* that cannot be parsed, and books whose requests fail.
Books ==
    { Book("207", "207", v) : v \in SeqsUpTo(Vcards, MaxCards) }
    \cup { Book("207", "207", <<VcardBroken, VcardTom>>),
           Book("404", "207", <<VcardTom>>),
           Book("207", "500", <<VcardTom>>),
           Book("207", "raises", <<VcardTom>>) }

Server(propfind, addressbooks) == [propfind |-> propfind, addressbooks |-> addressbooks]

Servers ==
    { Server("207", b) : b \in SeqsUpTo(Books, MaxBooks) }
    \cup { Server("401", <<Book("207", "207", <<VcardAl>>)>>),
           Server("raises", <<Book("207", "207", <<VcardAl>>)>>) }

(***************************************************************************)
(* The settings of .env                                                    *)
(*                                                                         *)
(* caldav_url, caldav_username, caldav_password, carddav_url: whether the  *)
(* variable is set to a non-empty value.  timezone_offset: the text of     *)
(* TIMEZONE_OFFSET by what float() and timezone() make of it.              *)
(***************************************************************************)

Environ(url, username, password, carddav_url, offset) ==
    [caldav_url |-> url, caldav_username |-> username, caldav_password |-> password,
     carddav_url |-> carddav_url, timezone_offset |-> offset]

\* TIMEZONE_OFFSET: unset or empty, a number of hours, 'inf', or other text.
OffsetDefault == [kind |-> "default"]
OffsetHours(h) == [kind |-> "number", hours |-> h]
OffsetInf == [kind |-> "inf"]
OffsetText == [kind |-> "text"]

(***************************************************************************)
(* The contact loading of main, on its own                                 *)
(***************************************************************************)

InitContacts ==
    /\ pc = "idle"
    /\ tz = parse_timezone_offset(3)
    /\ room_emails = {}
    /\ email_to_name = <<>>
    /\ events = <<>>
    /\ i = 0
    /\ parsed_events = <<>>
    /\ NoResolveCall
    /\ step = "load_contacts"
    /\ args = NoValue
    /\ date_arg = NoValue
    /\ environ = Environ(TRUE, TRUE, TRUE, TRUE, OffsetDefault)
    /\ calendar = "connected"
    /\ carddav \in Servers
    /\ fetched = FALSE
    /\ document = <<>>
    /\ saved = FALSE
    /\ printed = "None"
    /\ result = <<>>
    /\ error = "None"

\* Variant of LoadContacts: a discovery or a book that fails ends main with 1.
LoadContactsAborts ==
    /\ step = "load_contacts"
    /\ email_to_name' = IF environ.carddav_url THEN load_contacts_from_carddav(carddav)
                        ELSE <<>>
    /\ IF /\ environ.carddav_url
          /\ \/ carddav.propfind # "207"
             \/ \E p \in DOMAIN carddav.addressbooks :
                   \/ carddav.addressbooks[p].propfind # "207"
                   \/ carddav.addressbooks[p].report # "207"
       THEN step' = "exit" /\ result' = <<1>> /\ error' = "Failed to load contacts"
       ELSE step' = "fetch" /\ UNCHANGED <<result, error>>
    /\ UNCHANGED <<pc, tz, room_emails, events, i, parsed_events, attendee_arg, resolved,
                   args, date_arg, environ, calendar, carddav,
                   fetched, document, saved, printed>>

\* main: email_to_name = {}, and load_contacts_from_carddav when CARDDAV_URL is set.
LoadContacts ==
    /\ step = "load_contacts"
    /\ email_to_name' = IF environ.carddav_url THEN load_contacts_from_carddav(carddav)
                        ELSE <<>>
    /\ step' = "fetch"
    /\ UNCHANGED <<pc, tz, room_emails, events, i, parsed_events, attendee_arg, resolved,
                   args, date_arg, environ, calendar, carddav,
                   fetched, document, saved, printed, result, error>>

NextContacts == LoadContacts

SpecContacts == InitContacts /\ [][NextContacts]_vars

\* The contact records that were loaded, as <<book, vCard, address>> positions:
\* discovery and both requests of the book answered, the vCard parsed and
\* named, the address not blank.
LoadedRecords ==
    IF carddav.propfind # "207" THEN {}
    ELSE { t \in UNION { { <<p, q, r>> :
                              q \in DOMAIN carddav.addressbooks[p].vcards,
                              r \in 1..MaxCards + 2 } :
                         p \in DOMAIN carddav.addressbooks } :
             LET book == carddav.addressbooks[t[1]]
                 card == book.vcards[t[2]]
             IN  /\ book.propfind = "207" /\ book.report = "207"
                 /\ card.readable
                 /\ ~Falsy(full_name(card))
                 /\ t[3] \in DOMAIN card.emails
                 /\ Strip(Lower(card.emails[t[3]])) # <<>> }

AddressOfRecord(t) == Strip(Lower(carddav.addressbooks[t[1]].vcards[t[2]].emails[t[3]]))

NameOfRecord(t) == full_name(carddav.addressbooks[t[1]].vcards[t[2]])

\* Record t was loaded no later than record u.
NotLater(t, u) ==
    \/ t[1] < u[1]
    \/ t[1] = u[1] /\ t[2] < u[2]
    \/ t[1] = u[1] /\ t[2] = u[2] /\ t[3] <= u[3]

\* C17: once the contacts are loaded, the directory has an entry exactly for
\* the addresses (lowercased, stripped) of the loaded contact records, and the
\* entry is the name of the last loaded record carrying the address.
LastLoadedWins ==
    (step = "fetch" /\ environ.carddav_url) =>
        /\ DOMAIN email_to_name = { AddressOfRecord(t) : t \in LoadedRecords }
        /\ \A t \in LoadedRecords :
              (\A u \in LoadedRecords :
                    AddressOfRecord(u) = AddressOfRecord(t) => NotLater(u, t))
              => email_to_name[AddressOfRecord(t)] = NameOfRecord(t)

\* Reached: the first book names a and b 'tom', the second names a 'Al'; the
\* directory has 'Al' for a and still 'tom' for b.
LastLoadedWinsWitness ==
    /\ step = "fetch"
    /\ carddav = Server("207", << Book("207", "207", <<VcardTom>>),
                                  Book("207", "207", <<VcardAl>>) >>)
    /\ email_to_name = (<<"a">> :> <<"A", "l">>) @@ (<<"b">> :> <<"t", "o", "m">>)

(***************************************************************************)
(* parse_date_argument                                                     *)
(*                                                                         *)
(* The text of a date argument, by its shape: empty, an integer, day.month *)
(* with a four-digit year, with a two-digit year, or without year, or any  *)
(* other text.                                                             *)
(***************************************************************************)

DateEmpty == [kind |-> "empty"]
DateInt(n) == [kind |-> "int", offset |-> n]
DateText(fmt, d, m, y) == [kind |-> "date", fmt |-> fmt, d |-> d, m |-> m, y |-> y]
DateOther == [kind |-> "text"]

\* datetime.now()
Today == [y |-> 2025, m |-> 11, d |-> 14]

IsLeap(y) == (y % 4 = 0 /\ y % 100 # 0) \/ y % 400 = 0

DaysInMonth(y, m) ==
    IF m \in {4, 6, 9, 11} THEN 30
    ELSE IF m = 2 THEN (IF IsLeap(y) THEN 29 ELSE 28)
    ELSE 31

RECURSIVE DaysBeforeMonth(_, _)
DaysBeforeMonth(y, m) ==
    IF m = 1 THEN 0 ELSE DaysBeforeMonth(y, m - 1) + DaysInMonth(y, m - 1)

\* date.toordinal()
Ordinal(y, m, d) ==
    365 * (y - 1) + ((y - 1) \div 4) - ((y - 1) \div 100) + ((y - 1) \div 400)
        + DaysBeforeMonth(y, m) + d

\* The year strptime reads: %Y as written, %y in 1969..2068, and 1900 when
\* the format has no year.
StrptimeYear(a) ==
    IF a.fmt = "%d.%m.%Y" THEN a.y
    ELSE IF a.fmt = "%d.%m.%y" THEN (IF a.y >= 69 THEN 1900 + a.y ELSE 2000 + a.y)
    ELSE 1900

\* strptime accepts the day and month.
StrptimeAccepts(a) ==
    /\ a.m \in 1..12
    /\ a.d >= 1
    /\ a.d <= DaysInMonth(StrptimeYear(a), a.m)

\* parse_date_argument: the exception raised, and the date returned, as a day
\* counted from today.
parse_date_argument(a) ==
    IF a.kind = "empty" THEN [raises |-> "None", value |-> Date(0)]
    ELSE IF a.kind = "int"
    THEN IF Ordinal(Today.y, Today.m, Today.d) + a.offset \in 1..Ordinal(9999, 12, 31)
         THEN [raises |-> "None", value |-> Date(a.offset)]
         ELSE [raises |-> "OverflowError", value |-> NoValue]
    ELSE IF a.kind = "date" /\ StrptimeAccepts(a)
    THEN [raises |-> "None",
          value |-> Date(Ordinal(IF a.fmt = "%d.%m" THEN Today.y ELSE StrptimeYear(a), a.m, a.d)
                            - Ordinal(Today.y, Today.m, Today.d))]
    ELSE [raises |-> "ValueError", value |-> NoValue]

\* str(e) of what parse_date_argument raises.
DateMessage(a) ==
    IF parse_date_argument(a).raises = "OverflowError" THEN "date value out of range"
    ELSE "Invalid date format"

(***************************************************************************)
(* load_config, connect_to_calendar, print_document                        *)
(***************************************************************************)

\* What parse_timezone_offset raises: float() or timezone() a ValueError,
\* timedelta(hours=inf) an OverflowError.
TimezoneRaises(offset) ==
    IF offset.kind = "text" THEN "ValueError"
    ELSE IF offset.kind = "inf" THEN "OverflowError"
    ELSE IF offset.kind = "number" /\ (offset.hours <= 0 - 24 \/ offset.hours >= 24)
    THEN "ValueError"
    ELSE "None"

\* offset_str as a number of hours, '+3' when unset or empty.
OffsetValue(offset) == IF offset.kind = "default" THEN 3 ELSE offset.hours

TimezoneMessage(offset) ==
    IF TimezoneRaises(offset) = "OverflowError"
    THEN "cannot convert float infinity to integer"
    ELSE "Invalid timezone offset"

\* all([caldav_url, caldav_username, caldav_password])
RequiredPresent(e) == e.caldav_url /\ e.caldav_username /\ e.caldav_password

\* print_document: True only on Windows when os.startfile does not raise.
print_document(platform, startfile) ==
    IF platform # "Windows" THEN FALSE
    ELSE startfile = "ok"

(***************************************************************************)
(* create_word_document_compact                                            *)
(*                                                                         *)
(* The document is the sequence of the table's rows, a row being its time  *)
(* cell and the events written into its second cell, each with the summary *)
(* line and the participants shown.  src tells which raw event an entry    *)
(* stems from (a trace field).                                             *)
(***************************************************************************)

\* attendee_names: the name if there is one, otherwise the email.
attendee_names(event) ==
    LET all_attendees == event.required_attendees \o event.optional_attendees
    IN  [j \in 1..Len(all_attendees) |->
            IF ~Falsy(all_attendees[j].name) THEN all_attendees[j].name
            ELSE all_attendees[j].email]

\* What the second cell says of one event.
EventInfo(event) ==
    [src |-> event.src, summary |-> event.summary, location |-> event.location,
     participants |-> attendee_names(event)]

\* strftime('%H:%M'), as minutes since 00:00.
Clock(v) == IF IsDatetime(v) THEN v.wall % MinutesPerDay ELSE 0

\* duration_str: hours and minutes of the duration, each named when positive.
duration_str(d) ==
    [hours   |-> IF d.minutes \div 60 > 0 THEN d.minutes \div 60 ELSE 0,
     minutes |-> d.minutes % 60]

\* The first cell of a timed event: empty without start or end, the duration
\* line only for a duration that is not zero.
time_cell(event) ==
    IF Truthy(event.start) /\ Truthy(event.end)
    THEN [kind |-> "range", from |-> Clock(event.start), to |-> Clock(event.end),
          duration |-> IF Truthy(event.duration) /\ event.duration.minutes # 0
                       THEN duration_str(event.duration) ELSE NoValue]
    ELSE [kind |-> "empty"]

all_day_events(evs) == SelectSeq(evs, LAMBDA e : e.is_all_day)

timed_events(evs) == SelectSeq(evs, LAMBDA e : ~e.is_all_day)

\* Variant of create_word_document_compact: one row per event, in the order given.
create_word_document_in_order(evs) ==
    [k \in 1..Len(evs) |->
        [time    |-> IF evs[k].is_all_day THEN [kind |-> "all_day"] ELSE time_cell(evs[k]),
         entries |-> <<EventInfo(evs[k])>>]]

\* create_word_document_compact: the all-day events in one row, then a row for
\* each timed event; no table without events.
create_word_document_compact(evs) ==
    (IF all_day_events(evs) # <<>>
     THEN << [time    |-> [kind |-> "all_day"],
              entries |-> [k \in 1..Len(all_day_events(evs)) |->
                              EventInfo(all_day_events(evs)[k])]] >>
     ELSE <<>>)
    \o [k \in 1..Len(timed_events(evs)) |->
           [time |-> time_cell(timed_events(evs)[k]),
            entries |-> <<EventInfo(timed_events(evs)[k])>>]]

(***************************************************************************)
(* Inputs of main                                                          *)
(***************************************************************************)

\* args: --date absent, +1, 15.11.25, 29.02, 31.04.2025, some text, an offset
\* beyond date.max; --print given or not.
Args ==
    [date  : { NoValue, DateInt(1), DateText("%d.%m.%y", 15, 11, 25),
               DateText("%d.%m", 29, 2, 0), DateText("%d.%m.%Y", 31, 4, 2025),
               DateOther, DateInt(4000000) },
     print : BOOLEAN]

\* What input() gives at the prompt: EOFError, Enter, or text.
EOFError == [kind |-> "EOFError"]

Typed == { EOFError, DateEmpty, DateOther }

\* default_date: today as %d.%m.%y
DefaultDate == DateText("%d.%m.%y", Today.d, Today.m, Today.y % 100)

Environs ==
    { Environ(TRUE, TRUE, TRUE, c, o) : c \in BOOLEAN, o \in {OffsetDefault, OffsetHours(0 - 5)} }
    \cup { Environ(FALSE, TRUE, TRUE, TRUE, OffsetDefault),
           Environ(TRUE, FALSE, TRUE, TRUE, OffsetDefault),
           Environ(TRUE, TRUE, FALSE, FALSE, OffsetHours(0)),
           Environ(TRUE, TRUE, TRUE, TRUE, OffsetText),
           Environ(TRUE, TRUE, TRUE, TRUE, OffsetInf),
           Environ(TRUE, TRUE, TRUE, FALSE, OffsetHours(24)),
           Environ(FALSE, TRUE, TRUE, TRUE, OffsetText) }

\* CardDAV answers: discovery raises or is refused, no book, one book, a book
\* followed by one whose REPORT raises, a book whose PROPFIND is refused.
MainServers ==
    { Server("raises", <<>>),
      Server("401", <<>>),
      Server("207", <<>>),
      Server("207", <<Book("207", "207", <<VcardAl, VcardTom>>)>>),
      Server("207", <<Book("207", "207", <<VcardAl>>), Book("207", "raises", <<VcardTom>>)>>),
      Server("207", <<Book("404", "207", <<VcardTom>>)>>) }

\* Events of the day: an all-day one, a meeting of A and b, one that began
\* the evening before, one without start.
MainEvents ==
    { RawEvent(Date(0), Date(1), "Holiday", NoneStr, "none", <<>>),
      RawEvent(NaiveDT(HM(9, 0)), NaiveDT(HM(9, 30)), "Sync", NoneStr, "attendee_list",
               << Att(mailto \o <<"A">>, "None", "None"),
                  Att(<<"b">>, "REQ-PARTICIPANT", "ACCEPTED") >>),
      RawEvent(NaiveDT(0 - HM(1, 0)), NaiveDT(HM(0, 30)), "Late", NoneStr, "none", <<>>),
      RawEvent(NoValue, NoValue, "None", NoneStr, "none", <<>>) }

MainBatches == SeqsUpTo(MainEvents, MaxEvents)

(***************************************************************************)
(* main                                                                    *)
(***************************************************************************)

InitMain ==
    /\ pc = "idle"
    /\ tz = 0
    /\ room_emails = {}
    /\ email_to_name = <<>>
    /\ events = <<>>
    /\ i = 0
    /\ parsed_events = <<>>
    /\ NoResolveCall
    /\ step = "parse_date"
    /\ args \in Args
    /\ date_arg = NoValue
    /\ environ = NoValue
    /\ calendar = "None"
    /\ carddav \in MainServers
    /\ fetched = FALSE
    /\ document = <<>>
    /\ saved = FALSE
    /\ printed = "None"
    /\ result = <<>>
    /\ error = "None"

\* except Exception as e: print(f"Error: {str(e)}"); return 1
Raise(message) == step' = "exit" /\ result' = <<1>> /\ error' = message

Continue(next) == step' = next /\ UNCHANGED <<result, error>>

\* The prompt when --date is absent, and parse_date_argument.
ParseDate ==
    /\ step = "parse_date"
    /\ \E typed \in Typed :
          LET given == IF args.date # NoValue THEN args.date
                       ELSE IF typed \in {EOFError, DateEmpty} THEN DefaultDate
                       ELSE typed
          IN  /\ date_arg' = given
              /\ IF parse_date_argument(given).raises # "None"
                 THEN Raise(DateMessage(given))
                 ELSE Continue("load_config")
    /\ UNCHANGED <<pc, tz, room_emails, email_to_name, events, i, parsed_events,
                   attendee_arg, resolved, args, environ, calendar, carddav,
                   fetched, document, saved, printed>>

\* load_config
LoadConfig ==
    /\ step = "load_config"
    /\ \E e \in Environs :
          /\ environ' = e
          /\ IF TimezoneRaises(e.timezone_offset) # "None"
             THEN Raise(TimezoneMessage(e.timezone_offset)) /\ UNCHANGED tz
             ELSE IF ~RequiredPresent(e)
             THEN Raise("Missing required configuration") /\ UNCHANGED tz
             ELSE /\ tz' = parse_timezone_offset(OffsetValue(e.timezone_offset))
                  /\ Continue("connect")
    /\ UNCHANGED <<pc, room_emails, email_to_name, events, i, parsed_events,
                   attendee_arg, resolved, args, date_arg, calendar, carddav,
                   fetched, document, saved, printed>>

\* Variant of Connect: a calendar that cannot be reached is passed over.
ConnectPassesOver ==
    /\ step = "connect"
    /\ calendar' \in {"connected", "unreachable", "no calendars"}
    /\ Continue("load_rooms")
    /\ UNCHANGED <<pc, tz, room_emails, email_to_name, events, i, parsed_events,
                   attendee_arg, resolved, args, date_arg, environ, carddav,
                   fetched, document, saved, printed>>

\* connect_to_calendar
Connect ==
    /\ step = "connect"
    /\ calendar' \in {"connected", "unreachable", "no calendars"}
    /\ IF calendar' # "connected"
       THEN Raise("Failed to connect to CalDAV server")
       ELSE Continue("load_rooms")
    /\ UNCHANGED <<pc, tz, room_emails, email_to_name, events, i, parsed_events,
                   attendee_arg, resolved, args, date_arg, environ, carddav,
                   fetched, document, saved, printed>>

\* load_meeting_room_emails
LoadRooms ==
    /\ step = "load_rooms"
    /\ room_emails' \in {load_meeting_room_emails(f) : f \in RoomFiles}
    /\ Continue("load_contacts")
    /\ UNCHANGED <<pc, tz, email_to_name, events, i, parsed_events,
                   attendee_arg, resolved, args, date_arg, environ, calendar, carddav,
                   fetched, document, saved, printed>>

\* get_events_for_date up to calendar.date_search, which raises or returns
\* the events of the day.
Fetch ==
    /\ step = "fetch"
    /\ fetched' = TRUE
    /\ \E raises \in BOOLEAN, found \in MainBatches :
          IF raises
          THEN Raise("date_search failed") /\ UNCHANGED <<pc, events, i, parsed_events>>
          ELSE /\ events' = found
               /\ i' = 0
               /\ parsed_events' = <<>>
               /\ pc' = "loop"
               /\ Continue("get_events")
    /\ UNCHANGED <<tz, room_emails, email_to_name, attendee_arg, resolved,
                   args, date_arg, environ, calendar, carddav,
                   document, saved, printed>>

\* create_word_document_compact on the events returned, doc.save raising or
\* not; without --print main returns 0.
Render ==
    /\ step = "get_events"
    /\ pc = "done"
    /\ document' = create_word_document_compact(parsed_events)
    /\ \E save \in {"ok", "raises"} :
          IF save = "raises"
          THEN Raise("save failed") /\ UNCHANGED saved
          ELSE /\ saved' = TRUE
               /\ IF args.print
                  THEN Continue("print")
                  ELSE step' = "exit" /\ result' = <<0>> /\ UNCHANGED error
    /\ UNCHANGED <<pc, tz, room_emails, email_to_name, events, i, parsed_events,
                   attendee_arg, resolved, args, date_arg, environ, calendar, carddav,
                   fetched, printed>>

\* Variant of PrintDocument: a print that fails makes main return 1.
PrintDocumentFailureReturnsOne ==
    /\ step = "print"
    /\ \E platform \in {"Windows", "Linux"}, startfile \in {"ok", "raises"} :
          /\ printed' = IF print_document(platform, startfile) THEN "True" ELSE "False"
          /\ IF print_document(platform, startfile)
             THEN step' = "exit" /\ result' = <<0>> /\ UNCHANGED error
             ELSE Raise("printing failed")
    /\ UNCHANGED <<pc, tz, room_emails, email_to_name, events, i, parsed_events,
                   attendee_arg, resolved, args, date_arg, environ, calendar, carddav,
                   fetched, document, saved>>

\* print_document when --print was given; main returns 0 whatever it returned.
PrintDocument ==
    /\ step = "print"
    /\ \E platform \in {"Windows", "Linux"}, startfile \in {"ok", "raises"} :
          printed' = IF print_document(platform, startfile) THEN "True" ELSE "False"
    /\ step' = "exit"
    /\ result' = <<0>>
    /\ UNCHANGED <<pc, tz, room_emails, email_to_name, events, i, parsed_events,
                   attendee_arg, resolved, args, date_arg, environ, calendar, carddav,
                   fetched, document, saved, error>>

NextMain ==
    \/ ParseDate
    \/ LoadConfig
    \/ Connect
    \/ LoadRooms
    \/ LoadContacts
    \/ Fetch
    \/ ParseEvent
    \/ SortEvents
    \/ Render
    \/ PrintDocument

SpecMain == InitMain /\ [][NextMain]_vars

(***************************************************************************)
(* Properties of main                                                      *)
(***************************************************************************)

\* main has returned 1 with the message, before any fetch and any document.
HardFailure(message) ==
    /\ step = "exit"
    /\ result = <<1>>
    /\ error = message
    /\ ~fetched
    /\ document = <<>>
    /\ ~saved

\* C15: an invalid date argument, an invalid timezone offset, a missing
\* required setting or a calendar that cannot be reached make main return 1
\* with the message of the failure; date_search is never called and no
\* document is built or saved.
HardFailureStops ==
    /\ (date_arg # NoValue /\ parse_date_argument(date_arg).raises # "None")
          => HardFailure(DateMessage(date_arg))
    /\ (environ # NoValue /\ TimezoneRaises(environ.timezone_offset) # "None")
          => HardFailure(TimezoneMessage(environ.timezone_offset))
    /\ ( /\ environ # NoValue
         /\ TimezoneRaises(environ.timezone_offset) = "None"
         /\ ~(environ.caldav_url /\ environ.caldav_username /\ environ.caldav_password) )
          => HardFailure("Missing required configuration")
    /\ calendar \in {"unreachable", "no calendars"}
          => HardFailure("Failed to connect to CalDAV server")

\* Reached: date and settings were accepted, the calendar could not be
\* reached, and main returned 1.
HardFailureStopsWitness ==
    /\ parse_date_argument(date_arg).raises = "None"
    /\ environ # NoValue
    /\ calendar = "unreachable"
    /\ result = <<1>>
    /\ ~fetched /\ ~saved

\* main went through the contact loading with CARDDAV_URL set.
ContactsTried ==
    /\ calendar = "connected"
    /\ environ.carddav_url
    /\ step \in {"fetch", "get_events", "print", "exit"}

\* Discovery, the listing of a book or the fetch of its contacts failed.
ContactsFailed ==
    \/ carddav.propfind # "207"
    \/ \E p \in DOMAIN carddav.addressbooks :
          carddav.addressbooks[p].propfind # "207" \/ carddav.addressbooks[p].report # "207"

\* The attendees of the returned events, as the document must show them.
ShownAs(x) == IF x.name = NoneStr THEN x.email ELSE x.name

\* C16: after a failure of the contact loading main goes on: the directory has
\* the entries of the books that answered and no other, date_search is
\* called, main returns 1 only when date_search or doc.save raise and
\* otherwise saves the document, in which an attendee without name stands
\* with the stored email.
ContactsFailureTolerated ==
    (ContactsTried /\ ContactsFailed) =>
        /\ DOMAIN email_to_name = { AddressOfRecord(t) : t \in LoadedRecords }
        /\ carddav.propfind # "207" => email_to_name = <<>>
        /\ step # "fetch" => fetched
        /\ result = <<1>> => error \in {"date_search failed", "save failed"}
        /\ (step = "exit" /\ error = "None") => saved /\ result = <<0>>
        /\ saved =>
              \A r \in DOMAIN document : \A j \in DOMAIN document[r].entries :
                  \E k \in DOMAIN parsed_events :
                      /\ parsed_events[k].src = document[r].entries[j].src
                      /\ document[r].entries[j].participants
                            = [n \in 1..Len(parsed_events[k].attendees) |->
                                  ShownAs(parsed_events[k].attendees[n])]

\* Reached: the second book's REPORT raised, the directory has the first
\* book's entry for a, and the saved document shows the meeting's attendees
\* as 'Al' and 'b'.
ContactsFailureToleratedWitness ==
    /\ ContactsTried
    /\ carddav.propfind = "207"
    /\ \E p \in DOMAIN carddav.addressbooks : carddav.addressbooks[p].report = "raises"
    /\ email_to_name = (<<"a">> :> <<"A", "l">>)
    /\ saved
    /\ result = <<0>>
    /\ \E r \in DOMAIN document :
          document[r].entries[1].participants = << <<"A", "l">>, <<"b">> >>

\* The raw events in the order the document names them.
RECURSIVE Emitted(_)
Emitted(doc) ==
    IF doc = <<>> THEN <<>>
    ELSE [j \in 1..Len(Head(doc).entries) |-> Head(doc).entries[j].src] \o Emitted(Tail(doc))

\* Where the document names the event of parsed_events[k].
PlaceOf(k) == CHOOSE p \in DOMAIN Emitted(document) : Emitted(document)[p] = parsed_events[k].src

\* C18 as stated: the saved document names the events in the order of the
\* sequence get_events_for_date returned.
RenderedInAssembledOrder ==
    saved => Emitted(document) = [k \in DOMAIN parsed_events |-> parsed_events[k].src]

\* C18: the saved document names every returned event once; the all-day
\* events come first, in one row, then the timed events; two all-day events
\* and two timed events stand in the order of the returned sequence.
RenderedAllDayFirst ==
    saved =>
        /\ Len(Emitted(document)) = Len(parsed_events)
        /\ \A k \in DOMAIN parsed_events :
              \E p \in DOMAIN Emitted(document) : Emitted(document)[p] = parsed_events[k].src
        /\ \A k1, k2 \in DOMAIN parsed_events :
              /\ (parsed_events[k1].is_all_day /\ ~parsed_events[k2].is_all_day)
                    => PlaceOf(k1) < PlaceOf(k2)
              /\ (k1 < k2 /\ parsed_events[k1].is_all_day = parsed_events[k2].is_all_day)
                    => PlaceOf(k1) < PlaceOf(k2)
        /\ \A r \in DOMAIN document :
              /\ document[r].time.kind = "all_day" => r = 1
              /\ document[r].time.kind # "all_day" => Len(document[r].entries) = 1

\* Reached: a document saved for a returned sequence in which a timed event
\* stands before an all-day event, and after it in the document.
RenderedAllDayFirstWitness ==
    /\ saved
    /\ \E k1, k2 \in DOMAIN parsed_events :
          /\ k1 < k2
          /\ ~parsed_events[k1].is_all_day
          /\ Truthy(parsed_events[k1].start)
          /\ parsed_events[k2].is_all_day
          /\ PlaceOf(k2) < PlaceOf(k1)

\* C19: main returns 0 exactly when the document was saved; print_document is
\* called only after the save and only with --print, and when it returns
\* False main still returns 0.
ZeroIffSaved ==
    /\ result # <<>> => (result = <<0>> <=> saved)
    /\ printed # "None" => (saved /\ args.print)
    /\ (step = "exit" /\ saved /\ ~args.print) => printed = "None"
    /\ (step = "exit" /\ saved /\ args.print) => printed # "None"
    /\ printed = "False" => (step = "exit" /\ result = <<0>> /\ saved)

\* Reached: print_document returned False and main returned 0, the document saved.
ZeroIffSavedWitness ==
    /\ step = "exit"
    /\ args.print
    /\ printed = "False"
    /\ saved
    /\ result = <<0>>

====
